---------------------------- MODULE Spec2Model ----------------------------
(***************************************************************************)
(* Color Call: a model of the pixel-analysis pipeline and of the ColorCall *)
(* component that drives it.                                               *)
(*                                                                         *)
(*   - calculateCompositionScore (60/30/10 scoring)      SpecScore         *)
(*   - analyzeZoneSystem (zone histogram)                SpecZone          *)
(*   - analyzeVisualWeight (centre of visual mass)       SpecWeight        *)
(*   - kMeans (dominant colour extraction)               SpecKMeans        *)
(*   - ColorCall / ImageUpload (handlers, async runs)    SpecApp           *)
(*                                                                         *)
(* JavaScript numbers are modelled exactly: a non-integer value is a       *)
(* rational <<n, d>> in lowest terms with d > 0, and the non-finite results *)
(* the code can produce (0/0, Math.min and Math.max of an empty list) are  *)
(* NaN = <<0,0>>, Infinity = <<1,0>>, -Infinity = <<-1,0>>.  The rounding  *)
(* error of IEEE-754 doubles over the handful of operations involved is    *)
(* below 1e-12 and is ignored; the input palettes avoid values that sit    *)
(* exactly on a rounding boundary.                                         *)
(***************************************************************************)
EXTENDS Integers, Sequences, FiniteSets, TLC

VARIABLES
    \* ---- ColorCall component state (ColorCall.jsx:18-25) and its async runs
    image, colors, scoreData, harmonyData, zoneData, weightData, analyzing, error,
    readers, runs, submitted,
    \* ---- calculateCompositionScore: argument and returned object
    scoreInput, scoreResult,
    \* ---- analyzeZoneSystem: sampled image data and resolved report
    zoneImage, zoneReport,
    \* ---- analyzeZoneSystem: the decoded image the canvas is drawn from
    zoneSource,
    \* ---- analyzeVisualWeight: image data and resolved report
    weightImage, weightReport,
    \* ---- kMeans: argument, loop state and returned swatches
    pixels, centroids, assignments, iteration, kpc, swatches,
    \* ---- analyzeColorHarmony: argument and returned object
    harmonyInput, harmonyReport,
    \* ---- matchCinematographerStyle: argument and returned list
    styleInput, styleMatches

appVars    == <<image, colors, scoreData, harmonyData, zoneData, weightData,
                analyzing, error, readers, runs, submitted>>
scoreVars  == <<scoreInput, scoreResult>>
zoneVars   == <<zoneImage, zoneReport, zoneSource>>
weightVars == <<weightImage, weightReport>>
kmVars     == <<pixels, centroids, assignments, iteration, kpc, swatches>>
harmonyVars == <<harmonyInput, harmonyReport>>
styleVars   == <<styleInput, styleMatches>>
vars       == <<appVars, scoreVars, zoneVars, weightVars, kmVars, harmonyVars, styleVars>>

\* JavaScript null / "not yet returned": a record, so that it compares with result objects
NULL == [null |-> TRUE]

-----------------------------------------------------------------------------
(* Exact arithmetic on JavaScript numbers                                    *)

RECURSIVE GCD(_, _)
GCD(a, b) == IF b = 0 THEN a ELSE GCD(b, a % b)

\* the number n/d (d > 0), kept in lowest terms
Rat(n, d) ==
    LET g == GCD(IF n < 0 THEN 0 - n ELSE n, d)
    IN  <<n \div g, d \div g>>
Num(q)     == q[1]
Den(q)     == q[2]
RInt(n)    == <<n, 1>>
\* p + q and p - q of finite numbers, over the least common denominator
RAdd(p, q) ==
    LET g == GCD(p[2], q[2])
    IN  Rat(p[1] * (q[2] \div g) + q[1] * (p[2] \div g), p[2] * (q[2] \div g))
RSub(p, q) ==
    LET g == GCD(p[2], q[2])
    IN  Rat(p[1] * (q[2] \div g) - q[1] * (p[2] \div g), p[2] * (q[2] \div g))
RMul(p, q) == Rat(p[1] * q[1], p[2] * q[2])
RAbs(p)    == IF p[1] < 0 THEN <<0 - p[1], p[2]>> ELSE p

\* the non-finite numbers: a zero denominator
NaN         == <<0, 0>>
PosInfinity == <<1, 0>>
NegInfinity == <<0 - 1, 0>>
IsFinite(q)  == q[2] # 0
IsInteger(q) == q[2] = 1

\* ===, < and <= of two numbers; every comparison with NaN is false
REq(p, q)  == p # NaN /\ q # NaN /\ p[1] * q[2] = q[1] * p[2]
RLt(p, q)  == p # NaN /\ q # NaN /\ p[1] * q[2] < q[1] * p[2]
RLe(p, q)  == p # NaN /\ q # NaN /\ p[1] * q[2] <= q[1] * p[2]

\* a / b of two finite numbers a >= 0, b >= 0 (given as integers over a common unit)
JsDiv(a, b) ==
    IF b # 0 THEN Rat(a, b) ELSE IF a = 0 THEN NaN ELSE PosInfinity

\* Math.round: the nearest integer, a tie going towards +Infinity.
MathRound(q) == (2 * q[1] + q[2]) \div (2 * q[2])
\* Math.floor
MathFloor(q) == q[1] \div q[2]

Max(a, b) == IF a >= b THEN a ELSE b
Min(a, b) == IF a <= b THEN a ELSE b

RECURSIVE RSum(_)
RSum(s) == IF s = <<>> THEN RInt(0) ELSE RAdd(Head(s), RSum(Tail(s)))

RECURSIVE ISum(_)
ISum(s) == IF s = <<>> THEN 0 ELSE Head(s) + ISum(Tail(s))

\* Array.prototype.slice(from, to) with 0-based, end-exclusive indices
Slice(s, from, to) ==
    [i \in 1..(Min(to, Len(s)) - Min(from, Len(s))) |-> s[i + Min(from, Len(s))]]

-----------------------------------------------------------------------------
(* calculateCompositionScore   (utils/colorExtraction: the 60/30/10 score)  *)
(* A swatch is a record with at least a percentage field (a number).        *)

\* faulty variant: the 60/20/10 targets of the superseded scorer
targets_602010 == <<60, 20, 10>>

\* const targets = [60, 30, 10]
targets == <<60, 30, 10>>

\* the tolerance of the per-swatch withinTolerance flag
TOLERANCE == 10

\* const topThree = colors.slice(0, 3)
topThree(colorList) == Slice(colorList, 0, 3)

\* topThree.map((color, idx) => ({...color, target, deviation, withinTolerance}))
\* (deviationFormatted, a display string, is left out)
deviationsOf(colorList) ==
    [idx \in 1..Len(topThree(colorList)) |->
        LET color     == topThree(colorList)[idx]
            deviation == RSub(color.percentage, RInt(targets[idx]))
        IN  [percentage      |-> color.percentage,
             target          |-> targets[idx],
             deviation       |-> deviation,
             withinTolerance |-> RLe(RAbs(deviation), RInt(TOLERANCE))]]

\* deviations.reduce((sum, d) => sum + Math.abs(d.deviation), 0)
totalDeviationOf(deviations) ==
    RSum([i \in 1..Len(deviations) |-> RAbs(deviations[i].deviation)])

\* 100 - totalDeviation * 0.77
rawScore(totalDeviation) ==
    RSub(RInt(100), Rat(77 * Num(totalDeviation), 100 * Den(totalDeviation)))

\* faulty variant: Math.floor in place of Math.round
scoreOf_floor(totalDeviation) ==
    Max(0, Min(100, MathFloor(rawScore(totalDeviation))))

\* faulty variant: the clamp to [0,100] dropped
scoreOf_unclamped(totalDeviation) ==
    MathRound(rawScore(totalDeviation))

\* Math.max(0, Math.min(100, Math.round(100 - totalDeviation * 0.77)))
scoreOf(totalDeviation) ==
    Max(0, Min(100, MathRound(rawScore(totalDeviation))))

\* faulty variant: the thresholds compared with > instead of >=
verdictOf_strict(score) ==
    IF      score > 85 THEN "Textbook"
    ELSE IF score > 70 THEN "Harmonious"
    ELSE IF score > 50 THEN "Expressive"
    ELSE                    "Bold"

\* the if / else-if chain on score
verdictOf(score) ==
    IF      score >= 85 THEN "Textbook"
    ELSE IF score >= 70 THEN "Harmonious"
    ELSE IF score >= 50 THEN "Expressive"
    ELSE                     "Bold"

\* faulty variant: without the test of colors.length
calculateCompositionScore_unguarded(colorList) ==
    LET deviations     == deviationsOf(colorList)
        totalDeviation == totalDeviationOf(deviations)
        score          == scoreOf(totalDeviation)
    IN  [score          |-> score,
         verdict        |-> verdictOf(score),
         deviations     |-> deviations,
         totalDeviation |-> totalDeviation]

calculateCompositionScore(colorList) ==
    IF Len(colorList) < 3
    THEN [score |-> 0, verdict |-> "Insufficient colors", deviations |-> <<>>]
    ELSE LET deviations     == deviationsOf(colorList)
             totalDeviation == totalDeviationOf(deviations)
             score          == scoreOf(totalDeviation)
         IN  [score          |-> score,
              verdict        |-> verdictOf(score),
              deviations     |-> deviations,
              totalDeviation |-> totalDeviation]

-----------------------------------------------------------------------------
(* analyzeZoneSystem   (utils/zoneSystem.js)                                 *)
(* imageData.data is modelled pixel by pixel: a sequence of <<r, g, b, a>>.  *)

\* (0.2126 * r + 0.7152 * g + 0.0722 * b) / 255
getLuminance(px) ==
    Rat(2126 * px[1] + 7152 * px[2] + 722 * px[3], 10000 * 255)

\* Math.round(luminance * 10)
luminanceToZone(luminance) == MathRound(RMul(luminance, RInt(10)))

\* ZONE_INFO[zone].type
ZONE_TYPE ==
    [z \in 0..10 |-> IF z <= 3 THEN "shadow" ELSE IF z <= 6 THEN "midtone" ELSE "highlight"]

\* the byte loop "for (i = 0; i < data.length; i += 16)" visits every 4th pixel
ZONE_SAMPLE_STEP == 4

\* if (a > 128): the alpha a pixel must exceed to be counted
ALPHA_THRESHOLD == 128

\* the (1-based) positions of data the loop reads
sampledPositions(data) ==
    { i \in 1..Len(data) : (i - 1) % ZONE_SAMPLE_STEP = 0 }

\* the positions whose pixel passes the alpha test
countedPositions(data) ==
    { i \in sampledPositions(data) : data[i][4] > ALPHA_THRESHOLD }

\* zoneCounts after the loop: zoneCounts[zone]++ for every counted pixel
zoneCountsOf(data) ==
    LET zoneAt == [i \in countedPositions(data) |->
                      luminanceToZone(getLuminance(data[i]))]
    IN  [z \in 0..10 |-> Cardinality({ i \in DOMAIN zoneAt : zoneAt[i] = z })]

\* faulty variant: totalPixels++ outside the alpha test
totalPixelsOf_allSampled(data) == Cardinality(sampledPositions(data))

\* totalPixels after the loop
totalPixelsOf(data) == Cardinality(countedPositions(data))

\* zoneCounts.map((count, zone) => ({zone, ...ZONE_INFO[zone], count, percentage}))
zoneDataOf(zoneCounts, totalPixels) ==
    [z \in 0..10 |->
        [zone       |-> z,
         type       |-> ZONE_TYPE[z],
         count      |-> zoneCounts[z],
         percentage |-> IF totalPixels > 0
                        THEN Rat(zoneCounts[z] * 100, totalPixels)
                        ELSE RInt(0)]]

\* zoneData.slice(from, to).reduce((sum, z) => sum + z.percentage, 0)
sliceSum(zd, from, to) ==
    RSum([i \in 1..(to - from) |-> zd[from + i - 1].percentage])

\* zoneData.reduce((max, z) => z.percentage > max.percentage ? z : max, zoneData[0])
peakZoneOf(zd) ==
    LET best == CHOOSE z \in 0..10 :
                    /\ \A y \in 0..10 : RLe(zd[y].percentage, zd[z].percentage)
                    /\ \A y \in 0..(z - 1) : RLt(zd[y].percentage, zd[z].percentage)
    IN  zd[best]

\* const significantThreshold = 2
SIGNIFICANT_THRESHOLD == 2

\* zoneData.filter(z => z.percentage >= significantThreshold).map(z => z.zone)
significantZonesOf(zd) ==
    { z \in 0..10 : RLe(RInt(SIGNIFICANT_THRESHOLD), zd[z].percentage) }

\* Math.min(...list): Infinity for the empty list
MathMin(S) ==
    IF S = {} THEN PosInfinity ELSE RInt(CHOOSE x \in S : \A y \in S : x <= y)

\* Math.max(...list): -Infinity for the empty list
MathMax(S) ==
    IF S = {} THEN NegInfinity ELSE RInt(CHOOSE x \in S : \A y \in S : x >= y)

\* lightestZone - darkestZone; -Infinity - Infinity is -Infinity
dynamicRangeOf(lightestZone, darkestZone) ==
    IF IsFinite(lightestZone) /\ IsFinite(darkestZone)
    THEN RSub(lightestZone, darkestZone)
    ELSE NegInfinity

\* the if / else-if chain on the three aggregates and the dynamic range
characterOf(shadowZones, midtoneZones, highlightZones, dynamicRange) ==
    IF      RLt(RInt(50), shadowZones)    THEN "Low Key"
    ELSE IF RLt(RInt(50), highlightZones) THEN "High Key"
    ELSE IF RLt(RInt(50), midtoneZones)   THEN "Middle Key"
    ELSE IF RLe(RInt(8), dynamicRange)    THEN "Full Range"
    ELSE IF RLe(dynamicRange, RInt(4))    THEN "Compressed"
    ELSE                                       "Balanced"

\* the object image.onload resolves with
analyzeZoneSystem(data) ==
    LET zd             == zoneDataOf(zoneCountsOf(data), totalPixelsOf(data))
        shadowZones    == sliceSum(zd, 0, 4)
        midtoneZones   == sliceSum(zd, 4, 7)
        highlightZones == sliceSum(zd, 7, 11)
        darkestZone    == MathMin(significantZonesOf(zd))
        lightestZone   == MathMax(significantZonesOf(zd))
        dynamicRange   == dynamicRangeOf(lightestZone, darkestZone)
    IN  [zones                |-> zd,
         peakZone             |-> peakZoneOf(zd),
         dynamicRange         |-> dynamicRange,
         shadowPercentage     |-> shadowZones,
         midtonePercentage    |-> midtoneZones,
         highlightPercentage  |-> highlightZones,
         character            |-> characterOf(shadowZones, midtoneZones,
                                              highlightZones, dynamicRange),
         darkestSignificant   |-> darkestZone,
         lightestSignificant  |-> lightestZone]

\* const maxDim = 400
ZONE_MAX_DIMENSION == 400

\* Math.min(maxDim / width, maxDim / height, 1)
scaleOf(width, height, maxDim) ==
    IF width <= maxDim /\ height <= maxDim THEN RInt(1)
    ELSE IF width >= height THEN Rat(maxDim, width) ELSE Rat(maxDim, height)

\* Math.floor(side * scale)
scaledSide(side, scale) == MathFloor(RMul(RInt(side), scale))

\* what the promise is rejected with when getImageData is asked for a
\* rectangle of width or height 0
INDEX_SIZE_ERROR == [rejected |-> "IndexSizeError"]

\* getImageData(0, 0, width, height).data of a canvas on which an image of
\* one colour was drawn
uniformData(width, height, px) == [i \in 1..(width * height) |-> px]

\* width and height of the canvas for a decoded image
scaledWidthOf(source) ==
    scaledSide(source.naturalWidth,
               scaleOf(source.naturalWidth, source.naturalHeight, ZONE_MAX_DIMENSION))
scaledHeightOf(source) ==
    scaledSide(source.naturalHeight,
               scaleOf(source.naturalWidth, source.naturalHeight, ZONE_MAX_DIMENSION))

\* image.onload of analyzeZoneSystem for an image of one colour drawn on a
\* canvas of the given size: getImageData throws for an empty rectangle and
\* the catch rejects, otherwise the promise resolves with the report
zoneSettleOf(source, width, height) ==
    IF width = 0 \/ height = 0 THEN INDEX_SIZE_ERROR
    ELSE analyzeZoneSystem(uniformData(width, height, source.color))

-----------------------------------------------------------------------------
(* rgbToHsl   (utils/colorUtils.js)                                          *)

Max3(a, b, c) == Max(a, Max(b, c))
Min3(a, b, c) == Min(a, Min(b, c))

\* [Math.round(h * 360), Math.round(s * 100), Math.round(l * 100)] for integer
\* channels r, g, b in 0..255 (the division of each channel by 255 cancels)
rgbToHsl(rgb) ==
    LET r  == rgb[1]
        g  == rgb[2]
        b  == rgb[3]
        mx == Max3(r, g, b)
        mn == Min3(r, g, b)
        d  == mx - mn
        l  == Rat(mx + mn, 510)
        s  == IF mx = mn THEN RInt(0)
              ELSE IF RLt(Rat(1, 2), l) THEN Rat(d, 510 - mx - mn)
              ELSE Rat(d, mx + mn)
        \* h * 6, by the switch (max): case r, case g, case b in that order
        h6 == IF mx = mn THEN RInt(0)
              ELSE IF mx = r THEN RAdd(Rat(g - b, d), RInt(IF g < b THEN 6 ELSE 0))
              ELSE IF mx = g THEN RAdd(Rat(b - r, d), RInt(2))
              ELSE                RAdd(Rat(r - g, d), RInt(4))
    IN  << MathRound(RMul(h6, RInt(60))),
           MathRound(RMul(s, RInt(100))),
           MathRound(RMul(l, RInt(100))) >>

-----------------------------------------------------------------------------
(* analyzeColorHarmony   (utils/colorHarmony)                                *)
(* Hues and saturations are the integers rgbToHsl returns. The description  *)
(* of a result, a display string fixed by its type, is left out.            *)

\* Math.abs(h1 - h2), folded into 0..180
hueDifference(h1, h2) ==
    IF h1 - h2 > 180 \/ h2 - h1 > 180
    THEN 360 - (IF h1 >= h2 THEN h1 - h2 ELSE h2 - h1)
    ELSE IF h1 >= h2 THEN h1 - h2 ELSE h2 - h1

huesMatch(h1, h2, tolerance) == hueDifference(h1, h2) <= tolerance

\* faulty variant: every colour of the list, not the first three
topColorsOf_all(colorList) == colorList

\* colors.slice(0, 3)
topColorsOf(colorList) == Slice(colorList, 0, 3)

\* .map(c => ({...c, hsl: rgbToHsl(c.rgb)}))
withHsl(colorList) ==
    [i \in DOMAIN colorList |-> [hsl |-> rgbToHsl(colorList[i].rgb)] @@ colorList[i]]

\* Math.max(...hues) - Math.min(...hues)
hueSpreadOf(hues) ==
    (CHOOSE x \in { hues[i] : i \in DOMAIN hues } : \A i \in DOMAIN hues : x >= hues[i])
  - (CHOOSE x \in { hues[i] : i \in DOMAIN hues } : \A i \in DOMAIN hues : x <= hues[i])

\* the three differences the triadic test compares with 120
isTriadic(hues) ==
    /\ Len(hues) >= 3
    /\ huesMatch(hueDifference(hues[1], hues[2]), 120, 30)
    /\ huesMatch(hueDifference(hues[2], hues[3]), 120, 30)
    /\ huesMatch(hueDifference(hues[1], hues[3]), 120, 30)

\* analogousCount: the colours behind the first within 60 of its hue
analogousCountOf(hues) ==
    Cardinality({ i \in 2..Len(hues) : hueDifference(hues[1], hues[i]) <= 60 })

\* the two differences the tetradic test compares with 90
isTetradic(hues) ==
    /\ Len(hues) >= 3
    /\ \/ huesMatch(hueDifference(hues[1], hues[2]), 90, 20)
       \/ huesMatch(hueDifference(hues[1], hues[3]), 90, 20)

\* the chain of tests of analyzeColorHarmony on the hues and saturations of
\* two or three colours, in its order
harmonyTypeOf(hues, saturations) ==
    IF ISum(saturations) < 15 * Len(saturations) THEN "Achromatic"
    ELSE IF hueSpreadOf(hues) < 20 \/ hueSpreadOf(hues) > 340 THEN "Monochromatic"
    ELSE IF \E i \in 2..Len(hues) :
                huesMatch(hueDifference(hues[1], hues[i]), 180, 30)
         THEN "Complementary"
    ELSE IF isTriadic(hues) THEN "Triadic"
    ELSE IF \E i \in 2..Len(hues) :
                \/ huesMatch(hueDifference(hues[1], hues[i]), 150, 20)
                \/ huesMatch(hueDifference(hues[1], hues[i]), 210, 20)
         THEN "Split-Complementary"
    ELSE IF analogousCountOf(hues) >= Len(hues) - 1 THEN "Analogous"
    ELSE IF isTetradic(hues) THEN "Tetradic"
    ELSE "Complex"

\* the score returned with each type
HARMONY_SCORE ==
    [t \in {"Achromatic", "Monochromatic", "Complementary", "Triadic",
            "Split-Complementary", "Analogous", "Tetradic", "Complex"} |->
        CASE t = "Achromatic"          -> 85
          [] t = "Monochromatic"       -> 90
          [] t = "Complementary"       -> 95
          [] t = "Triadic"             -> 92
          [] t = "Split-Complementary" -> 88
          [] t = "Analogous"           -> 85
          [] t = "Tetradic"            -> 82
          [] t = "Complex"             -> 75]

\* the object returned for two or more colours
harmonyResult(hslColors, type) ==
    [type |-> type, score |-> HARMONY_SCORE[type], colors |-> hslColors]

harmonyOf(hslColors) ==
    harmonyResult(hslColors,
                  harmonyTypeOf([i \in DOMAIN hslColors |-> hslColors[i].hsl[1]],
                                [i \in DOMAIN hslColors |-> hslColors[i].hsl[2]]))

analyzeColorHarmony(colorList) ==
    IF Len(colorList) < 2
    THEN [type |-> "Monochromatic", score |-> 100]
    ELSE harmonyOf(withHsl(topColorsOf(colorList)))

-----------------------------------------------------------------------------
(* analyzeVisualWeight   (utils/visualWeight)                                *)
(* An image is [width, height, data]: data holds width * height pixels       *)
(* <<r, g, b, a>> in row order.  Weights are integers in units of 1/1000.    *)

\* (1 - l/100) * 0.7 + (s/100) * 0.3, times 1000
getPixelWeight(rgb) ==
    LET hsl == rgbToHsl(rgb)
    IN  7 * (100 - hsl[3]) + 3 * hsl[2]

\* const gridSize = 3
GRID_SIZE == 3

\* the accumulators before the first pixel
noWeight ==
    [totalWeight |-> 0, weightedX |-> 0, weightedY |-> 0,
     topLeft |-> 0, topRight |-> 0, bottomLeft |-> 0, bottomRight |-> 0,
     grid |-> [gy \in 0..(GRID_SIZE - 1) |-> [gx \in 0..(GRID_SIZE - 1) |-> 0]]]

\* const isLeft = x < width / 2;  const isTop = y < height / 2
isLeft(img, x) == 2 * x < img.width
isTop(img, y)  == 2 * y < img.height

\* Math.min(Math.floor((x / width) * gridSize), gridSize - 1), and for y
gridX(img, x) == Min(MathFloor(Rat(x * GRID_SIZE, img.width)), GRID_SIZE - 1)
gridY(img, y) == Min(MathFloor(Rat(y * GRID_SIZE, img.height)), GRID_SIZE - 1)

\* the body of the double loop for an opaque pixel at (x, y) of weight w
addWeight(img, acc, x, y, w) ==
    [totalWeight |-> acc.totalWeight + w,
     weightedX   |-> acc.weightedX + x * w,
     weightedY   |-> acc.weightedY + y * w,
     topLeft     |-> acc.topLeft     + (IF isTop(img, y) /\ isLeft(img, x) THEN w ELSE 0),
     topRight    |-> acc.topRight    + (IF isTop(img, y) /\ ~isLeft(img, x) THEN w ELSE 0),
     bottomLeft  |-> acc.bottomLeft  + (IF ~isTop(img, y) /\ isLeft(img, x) THEN w ELSE 0),
     bottomRight |-> acc.bottomRight + (IF ~isTop(img, y) /\ ~isLeft(img, x) THEN w ELSE 0),
     grid        |-> [acc.grid EXCEPT ![gridY(img, y)][gridX(img, x)] = @ + w]]

\* the body of the double loop for the pixel at idx / 4 = y * width + x = k - 1
visitPixel(img, acc, k) ==
    IF img.data[k][4] > ALPHA_THRESHOLD
    THEN addWeight(img, acc, (k - 1) % img.width, (k - 1) \div img.width,
                   getPixelWeight(img.data[k]))
    ELSE acc

\* the accumulators after the first k pixels in row order
RECURSIVE weightSums(_, _)
weightSums(img, k) ==
    IF k = 0 THEN noWeight ELSE visitPixel(img, weightSums(img, k - 1), k)

\* totalWeight > 0 ? (weighted / totalWeight / size) * 100 : 50
centerOf(weighted, totalWeight, size) ==
    IF totalWeight > 0 THEN Rat(weighted * 100, totalWeight * size) ELSE RInt(50)

\* nearSide > 0 ? (farSide / (nearSide + farSide)) * 100 : 50
balanceOf(nearSide, farSide) ==
    IF nearSide > 0 THEN Rat(farSide * 100, nearSide + farSide) ELSE RInt(50)

\* (quadrant / totalWeight) * 100, with no test of totalWeight
quadrantShare(quadrant, totalWeight) ==
    LET q == JsDiv(quadrant, totalWeight)
    IN  IF IsFinite(q) THEN RMul(q, RInt(100)) ELSE q

\* maxGridWeight > 0 ? cell / maxGridWeight : 0
normalizedGridOf(grid) ==
    LET cells == { grid[gy][gx] : gy \in 0..(GRID_SIZE - 1), gx \in 0..(GRID_SIZE - 1) }
        maxGridWeight == CHOOSE m \in cells : \A c \in cells : c <= m
    IN  [gy \in 0..(GRID_SIZE - 1) |-> [gx \in 0..(GRID_SIZE - 1) |->
            IF maxGridWeight > 0 THEN Rat(grid[gy][gx], maxGridWeight) ELSE RInt(0)]]

\* centerDev squared: (centerX - 50)^2 + (centerY - 50)^2.  Math.sqrt is
\* increasing, so every test of centerDev is made on its square.
centerDevSqOf(centerX, centerY) ==
    LET dx == RSub(centerX, RInt(50))
        dy == RSub(centerY, RInt(50))
    IN  RAdd(RMul(dx, dx), RMul(dy, dy))

\* the if / else-if chain on centerDev, hDev and vDev
balanceTypeOf(centerDevSq, horizontalBalance, verticalBalance) ==
    LET hDev == RAbs(RSub(horizontalBalance, RInt(50)))
        vDev == RAbs(RSub(verticalBalance, RInt(50)))
    IN  IF RLt(centerDevSq, RInt(100)) /\ RLt(hDev, RInt(10)) /\ RLt(vDev, RInt(10))
        THEN "Centered"
        ELSE IF RLt(RInt(25), hDev) /\ RLt(vDev, RInt(15))
        THEN (IF RLt(RInt(50), horizontalBalance) THEN "Right Heavy" ELSE "Left Heavy")
        ELSE IF RLt(RInt(25), vDev) /\ RLt(hDev, RInt(15))
        THEN (IF RLt(RInt(50), verticalBalance) THEN "Bottom Heavy" ELSE "Top Heavy")
        ELSE IF RLt(RInt(625), centerDevSq)
        THEN "Off-Center"
        ELSE "Balanced"

\* Math.max(0, Math.round(100 - centerDev * 2)): the integer n with
\* n <= 100.5 - 2 * centerDev < n + 1, found on the squares
balanceScoreOf(centerDevSq) ==
    LET \* the least integer >= (4 * centerDev)^2
        X == 0 - ((0 - 16 * Num(centerDevSq)) \div Den(centerDevSq))
        \* n <= 100.5 - 2 * centerDev  iff  (4 * centerDev)^2 <= (201 - 2n)^2
        n == CHOOSE k \in (0 - 200)..100 :
                /\ X <= (201 - 2 * k) * (201 - 2 * k)
                /\ (199 - 2 * k < 0 \/ (199 - 2 * k) * (199 - 2 * k) < X)
    IN  Max(0, n)

\* the object image.onload resolves with, from the accumulators a, the
\* centre and the two balances
weightResult(a, centerX, centerY, horizontalBalance, verticalBalance) ==
    [centerOfMass      |-> [x |-> centerX, y |-> centerY],
     quadrants         |-> [topLeft     |-> quadrantShare(a.topLeft, a.totalWeight),
                            topRight    |-> quadrantShare(a.topRight, a.totalWeight),
                            bottomLeft  |-> quadrantShare(a.bottomLeft, a.totalWeight),
                            bottomRight |-> quadrantShare(a.bottomRight, a.totalWeight)],
     horizontalBalance |-> horizontalBalance,
     verticalBalance   |-> verticalBalance,
     balanceScore      |-> balanceScoreOf(centerDevSqOf(centerX, centerY)),
     balanceType       |-> balanceTypeOf(centerDevSqOf(centerX, centerY),
                                         horizontalBalance, verticalBalance),
     heatmap           |-> normalizedGridOf(a.grid)]

\* the statements after the loop, on its accumulators a
weightReportOf(img, a) ==
    weightResult(a,
                 centerOf(a.weightedX, a.totalWeight, img.width),
                 centerOf(a.weightedY, a.totalWeight, img.height),
                 balanceOf(a.topLeft + a.bottomLeft, a.topRight + a.bottomRight),
                 balanceOf(a.topLeft + a.topRight, a.bottomLeft + a.bottomRight))

analyzeVisualWeight(img) ==
    weightReportOf(img, weightSums(img, img.width * img.height))

-----------------------------------------------------------------------------
(* kMeans   (utils/colorExtraction: dominant colours by k-means clustering) *)
(* A pixel is <<r, g, b>> of integers; a centroid is <<r, g, b>> of         *)
(* numbers. Clusters are numbered from 1 (the code numbers them from 0).    *)
(* Distances are compared through their squares, the square root being      *)
(* increasing.                                                              *)

K_CLUSTERS            == 8
MAX_ITERATIONS        == 25
CONVERGENCE_THRESHOLD == 1
MIN_COLOR_DISTANCE    == 60
\* the targetCount kMeans passes to filterDistinctColors
TARGET_COUNT          == 5

\* [...pixels[idx]]: the pixel as a centroid
toNumbers(rgb) == <<RInt(rgb[1]), RInt(rgb[2]), RInt(rgb[3])>>

RSq(q) == RMul(q, q)

\* colorDistance(rgb1, rgb2), squared
colorDistanceSq(rgb1, rgb2) ==
    RAdd(RAdd(RSq(RSub(rgb1[1], rgb2[1])), RSq(RSub(rgb1[2], rgb2[2]))),
         RSq(RSub(rgb1[3], rgb2[3])))

\* colorDistance(rgb1, rgb2) < limit, for a number limit >= 0
closerThan(rgb1, rgb2, limit) == RLt(colorDistanceSq(rgb1, rgb2), RSq(limit))

\* rgbToHex: the two hexadecimal digits of each rounded component, read as
\* one number
rgbToHex(rgb) ==
    65536 * MathRound(rgb[1]) + 256 * MathRound(rgb[2]) + MathRound(rgb[3])

\* the least of a non-empty set of numbers
LeastOf(S) == CHOOSE d \in S : \A e \in S : RLe(d, e)

\* minDist * minDist of one pixel: its squared distance to the nearest of
\* the centroids chosen so far
seedDistance(pixel, chosen) ==
    LeastOf({ colorDistanceSq(toNumbers(pixel), chosen[i]) : i \in DOMAIN chosen })

\* the selection loop can stop at pixel j (counted from 1) for some value
\* of Math.random(): threshold lies in [0, totalDist], and j is the first
\* index at which cumulative reaches it. That is pixel 1 for every threshold
\* up to distances[0] (threshold 0 among them), and a later pixel exactly
\* when its own distance raises cumulative, that is when it is positive.
canPick(pxs, chosen, j) ==
    \/ j = 1
    \/ RLt(RInt(0), seedDistance(pxs[j], chosen))

\* the cluster of the least distance, the first of them on a tie
firstLeast(dist) ==
    CHOOSE i \in DOMAIN dist :
        /\ \A j \in DOMAIN dist : RLe(dist[i], dist[j])
        /\ \A j \in DOMAIN dist : j < i => RLt(dist[i], dist[j])

assignClusters(pxs, cents) ==
    [p \in DOMAIN pxs |->
        firstLeast([i \in DOMAIN cents |-> colorDistanceSq(toNumbers(pxs[p]), cents[i])])]

\* sums[cluster][ch] and counts[cluster]
clusterSum(pxs, assigned, cluster, ch) ==
    ISum([p \in DOMAIN pxs |-> IF assigned[p] = cluster THEN pxs[p][ch] ELSE 0])
clusterCount(assigned, cluster) ==
    Cardinality({ p \in DOMAIN assigned : assigned[p] = cluster })

\* counts[idx] || 1
countOrOne(n) == IF n = 0 THEN 1 ELSE n

\* [sum[0] / count, sum[1] / count, sum[2] / count]
centroidOf(pxs, assigned, cluster, count) ==
    <<Rat(clusterSum(pxs, assigned, cluster, 1), count),
      Rat(clusterSum(pxs, assigned, cluster, 2), count),
      Rat(clusterSum(pxs, assigned, cluster, 3), count)>>

updateCentroids(pxs, assigned, k) ==
    [cluster \in 1..k |->
        centroidOf(pxs, assigned, cluster, countOrOne(clusterCount(assigned, cluster)))]

hasConverged(oldCentroids, newCentroids) ==
    \A idx \in DOMAIN oldCentroids :
        closerThan(oldCentroids[idx], newCentroids[idx], RInt(CONVERGENCE_THRESHOLD))

\* (count / total) * 100
percentageOf(count, total) == RMul(JsDiv(count, total), RInt(100))

\* centroids.map((centroid, idx) => ({rgb, hex, percentage, count}))
colorOf(centroid, count, total) ==
    [rgb        |-> <<MathRound(centroid[1]), MathRound(centroid[2]), MathRound(centroid[3])>>,
     hex        |-> rgbToHex(centroid),
     percentage |-> percentageOf(count, total),
     count      |-> count]

colorsOf(pxs, cents, assigned) ==
    [idx \in DOMAIN cents |->
        colorOf(cents[idx], clusterCount(assigned, idx), Len(pxs))]

\* one step of the stable sort: x goes behind every entry of the sorted
\* list whose percentage is at least its own
insertByPercentage(sorted, x, n) ==
    SubSeq(sorted, 1, n) \o <<x>> \o SubSeq(sorted, n + 1, Len(sorted))

placeByPercentage(sorted, x) ==
    insertByPercentage(sorted, x,
        Cardinality({ i \in DOMAIN sorted : RLe(x.percentage, sorted[i].percentage) }))

\* colors.sort((a, b) => b.percentage - a.percentage): stable, descending
RECURSIVE sortByPercentage(_)
sortByPercentage(list) ==
    IF list = <<>> THEN <<>>
    ELSE placeByPercentage(sortByPercentage(SubSeq(list, 1, Len(list) - 1)),
                           list[Len(list)])

\* the colours j > i not yet used that are closer than minDistance to colour i
similarTo(list, i, used, minDistance) ==
    { j \in (i + 1)..Len(list) :
        /\ j \notin used
        /\ closerThan(toNumbers(list[i].rgb), toNumbers(list[j].rgb), minDistance) }

\* totalCount, and weightedR, weightedG, weightedB, over the group
groupCount(list, group) ==
    ISum([j \in DOMAIN list |-> IF j \in group THEN list[j].count ELSE 0])
groupWeighted(list, group, ch) ==
    ISum([j \in DOMAIN list |-> IF j \in group THEN list[j].rgb[ch] * list[j].count ELSE 0])

\* the weighted average colour of a group of positive total count
averageOf(list, group, totalCount) ==
    <<MathRound(Rat(groupWeighted(list, group, 1), totalCount)),
      MathRound(Rat(groupWeighted(list, group, 2), totalCount)),
      MathRound(Rat(groupWeighted(list, group, 3), totalCount))>>

withAverage(color, rgb, totalCount) ==
    [color EXCEPT !.rgb = rgb, !.hex = rgbToHex(toNumbers(rgb)), !.count = totalCount]

\* mergedColor: colour i, with the average and the count of its group when
\* the group adds pixels to it
mergedWith(list, i, group, totalCount) ==
    IF totalCount > list[i].count
    THEN withAverage(list[i], averageOf(list, group, totalCount), totalCount)
    ELSE list[i]

mergedColorOf(list, i, group) ==
    mergedWith(list, i, group, groupCount(list, group))

\* the outer loop of mergeSimilarColors from colour i on
RECURSIVE mergeFrom(_, _, _, _, _)
mergeGroup(list, minDistance, i, used, merged, similar) ==
    mergeFrom(list, minDistance, i + 1, used \cup similar \cup {i},
              Append(merged, mergedColorOf(list, i, similar \cup {i})))

mergeFrom(list, minDistance, i, used, merged) ==
    IF i > Len(list) THEN merged
    ELSE IF i \in used THEN mergeFrom(list, minDistance, i + 1, used, merged)
    ELSE mergeGroup(list, minDistance, i, used, merged,
                    similarTo(list, i, used, minDistance))

mergeSimilarColors(list, minDistance) == mergeFrom(list, minDistance, 1, {}, <<>>)

\* faulty variant: no colour counts as too similar
isTooSimilar_never(color, distinct, minDistance) == FALSE

\* distinct.some(selected => colorDistance(color.rgb, selected.rgb) < minDistance)
isTooSimilar(color, distinct, minDistance) ==
    \E s \in DOMAIN distinct :
        closerThan(toNumbers(color.rgb), toNumbers(distinct[s].rgb), minDistance)

\* the loop of filterDistinctColors from colour i on
RECURSIVE filterFrom(_, _, _, _, _)
\* faulty variant: the loop does not stop at targetCount
filterNext_uncapped(list, minDistance, targetCount, i, distinct) ==
    filterFrom(list, minDistance, targetCount, i + 1, distinct)

filterNext(list, minDistance, targetCount, i, distinct) ==
    IF Len(distinct) >= targetCount THEN distinct
    ELSE filterFrom(list, minDistance, targetCount, i + 1, distinct)

filterFrom(list, minDistance, targetCount, i, distinct) ==
    IF i > Len(list) THEN distinct
    ELSE filterNext(list, minDistance, targetCount, i,
                    IF isTooSimilar(list[i], distinct, minDistance)
                    THEN distinct ELSE Append(distinct, list[i]))

filterDistinctColors(list, minDistance, targetCount) ==
    filterFrom(list, minDistance, targetCount, 1, <<>>)

\* list.reduce((sum, c) => sum + c.count, 0)
totalCountOf(list) == ISum([i \in DOMAIN list |-> list[i].count])

\* faulty variant: the percentages stay as they were before the recount
withPercentages_carried(list, total) == list

\* list.forEach(c => { c.percentage = (c.count / total) * 100 })
withPercentages(list, total) ==
    [i \in DOMAIN list |-> [list[i] EXCEPT !.percentage = percentageOf(list[i].count, total)]]

recounted(list) == withPercentages(list, totalCountOf(list))

\* MIN_COLOR_DISTANCE * 0.6
mergeDistance == Rat(MIN_COLOR_DISTANCE * 6, 10)

\* kMeans after its clustering loop: from the centroids and assignments to
\* the returned list
sortedColorsOf(pxs, cents, assigned) == sortByPercentage(colorsOf(pxs, cents, assigned))
mergedColorsOf(sortedColors) ==
    sortByPercentage(recounted(mergeSimilarColors(sortedColors, mergeDistance)))
distinctColorsOf(mergedColors) ==
    recounted(filterDistinctColors(mergedColors, RInt(MIN_COLOR_DISTANCE), TARGET_COUNT))

kMeansResult(pxs, cents, assigned) ==
    distinctColorsOf(mergedColorsOf(sortedColorsOf(pxs, cents, assigned)))

-----------------------------------------------------------------------------
(* Idle values of the variables a specification does not use                *)

AppIdle ==
    /\ image = NULL /\ colors = <<>> /\ scoreData = NULL /\ harmonyData = NULL
    /\ zoneData = NULL /\ weightData = NULL /\ analyzing = FALSE /\ error = NULL
    /\ readers = {} /\ runs = <<>> /\ submitted = 0
ScoreIdle  == scoreInput = <<>> /\ scoreResult = NULL
ZoneIdle   == zoneImage = <<>> /\ zoneReport = NULL /\ zoneSource = NULL
WeightIdle == weightImage = NULL /\ weightReport = NULL
KMeansIdle ==
    /\ pixels = <<>> /\ centroids = <<>> /\ assignments = <<>>
    /\ iteration = 0 /\ kpc = "idle" /\ swatches = NULL
HarmonyIdle == harmonyInput = <<>> /\ harmonyReport = NULL
StyleIdle   == styleInput = NULL /\ styleMatches = <<>>

-----------------------------------------------------------------------------
(* SpecScore: calculateCompositionScore applied to every swatch list of up  *)
(* to MaxSwatches entries whose percentages are drawn from ScorePercentages *)

MaxSwatches == 4

\* percentages in [0,100]: the targets, values just off a target (steps of
\* 0.1 and 0.01), the 33/33/34 scenario, the two ends of the range, and 25
\* (0/25/10 scores 50)
ScorePercentages ==
    { RInt(0), RInt(10), RInt(25), RInt(30), RInt(33), RInt(34), RInt(60), RInt(100),
      Rat(601, 10), Rat(6064, 100), Rat(6065, 100), Rat(299, 10) }

ScoreInputs ==
    UNION { [1..n -> [percentage : ScorePercentages]] : n \in 0..MaxSwatches }

InitScore ==
    /\ scoreInput \in ScoreInputs
    /\ scoreResult = NULL
    /\ AppIdle /\ ZoneIdle /\ WeightIdle /\ KMeansIdle /\ HarmonyIdle /\ StyleIdle

\* one call of calculateCompositionScore(scoreInput)
CallCalculateCompositionScore ==
    /\ scoreResult = NULL
    /\ scoreResult' = calculateCompositionScore(scoreInput)
    /\ UNCHANGED <<scoreInput, appVars, zoneVars, weightVars, kmVars, harmonyVars, styleVars>>

NextScore == CallCalculateCompositionScore

SpecScore == InitScore /\ [][NextScore]_vars

(* ---- properties of calculateCompositionScore ---- *)

\* the call has returned for a list of three or more swatches
ScoredThree == scoreResult # NULL /\ Len(scoreInput) >= 3

\* sum over the top three of |percentage - 60/30/10|, from the argument
InputDeviation ==
    RSum(<< RAbs(RSub(scoreInput[1].percentage, RInt(60))),
            RAbs(RSub(scoreInput[2].percentage, RInt(30))),
            RAbs(RSub(scoreInput[3].percentage, RInt(10))) >>)

OnTarget ==
    /\ REq(scoreInput[1].percentage, RInt(60))
    /\ REq(scoreInput[2].percentage, RInt(30))
    /\ REq(scoreInput[3].percentage, RInt(10))

\* C8 as stated: the score is exactly 100 only when the three top percentages
\* equal 60, 30 and 10; any non-zero total deviation gives a score below 100.
C8_ScoreHundredOnlyOnTarget ==
    ScoredThree => (scoreResult.score = 100 => OnTarget)

\* C8 amended: the score is 100 when the three top percentages equal 60, 30
\* and 10 and, because the penalty is rounded, also for every total deviation
\* up to 0.64; every total deviation of 0.65 or more gives a score below 100.
C8_ScoreHundredIffRoundsToHundred ==
    ScoredThree =>
        /\ OnTarget => scoreResult.score = 100
        /\ RLe(InputDeviation, Rat(64, 100)) => scoreResult.score = 100
        /\ RLe(Rat(65, 100), InputDeviation) => scoreResult.score < 100

\* C8 witness: a scored list that is off target and still scores 100
C8_OffTargetHundred ==
    ScoredThree /\ ~OnTarget /\ scoreResult.score = 100

Is333334 ==
    /\ Len(scoreInput) >= 3
    /\ scoreInput[1].percentage = RInt(33)
    /\ scoreInput[2].percentage = RInt(33)
    /\ scoreInput[3].percentage = RInt(34)

\* C9 as stated: for top-three percentages 33, 33, 34 the total deviation is
\* 56, the score 57 and the verdict "Expressive".
C9_Scenario56_57 ==
    (scoreResult # NULL /\ Is333334) =>
        /\ scoreResult.totalDeviation = RInt(56)
        /\ scoreResult.score = 57
        /\ scoreResult.verdict = "Expressive"

\* C9 amended: for top-three percentages 33, 33, 34 the total deviation is
\* 27 + 3 + 24 = 54, the score round(100 - 54 * 0.77) = 58 and the verdict
\* "Expressive".
C9_Scenario54_58 ==
    (scoreResult # NULL /\ Is333334) =>
        /\ scoreResult.totalDeviation = RInt(54)
        /\ scoreResult.score = 58
        /\ scoreResult.verdict = "Expressive"

\* C9 witness: the scenario's list has been scored
C9_ScenarioScored == scoreResult # NULL /\ Is333334

\* C10: the returned score is an integer in [0,100] for every swatch list,
\* the fewer-than-three sentinel included.
C10_ScoreInRange ==
    scoreResult # NULL => scoreResult.score \in 0..100

\* C10 witness: a list so far off target that 100 - totalDeviation * 0.77 is
\* negative has been scored (the lower clamp acted)
C10_ClampedAtZero ==
    /\ ScoredThree
    /\ RLt(rawScore(InputDeviation), RInt(0))
    /\ scoreResult.score = 0

\* the call has returned for a list of fewer than three swatches
ScoredBelowThree == scoreResult # NULL /\ Len(scoreInput) < 3

\* C18: with 0, 1 or 2 swatches calculateCompositionScore returns score 0,
\* verdict "Insufficient colors" and an empty deviations list, and nothing else.
C18_SentinelBelowThree ==
    ScoredBelowThree =>
        scoreResult = [score |-> 0, verdict |-> "Insufficient colors", deviations |-> <<>>]

\* C18 witness: the call has returned for a list of two swatches.
C18_TwoSwatchesScored == scoreResult # NULL /\ Len(scoreInput) = 2

\* C20: with three or more swatches the verdict is "Textbook" exactly for a
\* score of 85 or more, "Harmonious" for 70..84, "Expressive" for 50..69 and
\* "Bold" below 50; percentages 60, 30, 10 give score 100 and "Textbook".
C20_VerdictByScore ==
    ScoredThree =>
        /\ (scoreResult.verdict = "Textbook")   <=> (scoreResult.score >= 85)
        /\ (scoreResult.verdict = "Harmonious") <=>
               (scoreResult.score >= 70 /\ scoreResult.score < 85)
        /\ (scoreResult.verdict = "Expressive") <=>
               (scoreResult.score >= 50 /\ scoreResult.score < 70)
        /\ (scoreResult.verdict = "Bold")       <=> (scoreResult.score < 50)
        /\ OnTarget => (scoreResult.score = 100 /\ scoreResult.verdict = "Textbook")

\* C20 witness: a list scored exactly on a threshold, 50, and named "Expressive".
C20_ScoredOnThreshold ==
    /\ ScoredThree
    /\ scoreResult.score = 50
    /\ scoreResult.verdict = "Expressive"

-----------------------------------------------------------------------------
(* SpecZone: analyzeZoneSystem's onload handler applied to image data       *)

\* most pixels the sampling loop reads in an enumerated image
MaxZoneSamples == 4

\* number of sampled pixels in the sparse images: one pixel is below 2%
SparseSamples == 60

Transparent == <<0, 0, 0, 0>>
HalfAlpha   == <<255, 255, 255, 128>>
Black       == <<0, 0, 0, 255>>
Red         == <<255, 0, 0, 255>>
MidGray     == <<128, 128, 128, 255>>
White       == <<255, 255, 255, 255>>

ZonePalette == { Transparent, HalfAlpha, Black, Red, MidGray, White }

\* image data of every length up to the last sampled position; the pixels
\* the loop skips are mid gray
SmallZoneImages ==
    UNION { { [i \in 1..len |-> IF (i - 1) % ZONE_SAMPLE_STEP = 0
                                THEN f[((i - 1) \div ZONE_SAMPLE_STEP) + 1]
                                ELSE MidGray] :
                f \in [1..(((len - 1) \div ZONE_SAMPLE_STEP) + 1) -> ZonePalette] } :
            len \in 1..(ZONE_SAMPLE_STEP * (MaxZoneSamples - 1) + 1) }

\* a large image of one colour with a single sampled pixel of another
SparseZoneImages ==
    { [i \in 1..(ZONE_SAMPLE_STEP * (SparseSamples - 1) + 1) |->
            IF i = 1 THEN odd ELSE base] :
        base \in { Black, White }, odd \in { Black, White, MidGray } }

InitZone ==
    /\ zoneImage \in SmallZoneImages \cup SparseZoneImages
    /\ zoneReport = NULL
    /\ zoneSource = NULL
    /\ AppIdle /\ ScoreIdle /\ WeightIdle /\ KMeansIdle /\ HarmonyIdle /\ StyleIdle

\* image.onload of analyzeZoneSystem: the promise resolves with the report
ZoneOnLoad ==
    /\ zoneReport = NULL
    /\ zoneReport' = analyzeZoneSystem(zoneImage)
    /\ UNCHANGED <<zoneImage, zoneSource, appVars, scoreVars, weightVars, kmVars, harmonyVars, styleVars>>

NextZone == ZoneOnLoad

SpecZone == InitZone /\ [][NextZone]_vars

(* ---- properties of analyzeZoneSystem ---- *)

\* the sample: the pixels the loop reads and counts
ZoneSampleEmpty == countedPositions(zoneImage) = {}

\* the zones holding at least 2% of the counted pixels, from the histogram
ReportedSignificant ==
    { z \in 0..10 : RLe(RInt(2), zoneReport.zones[z].percentage) }

\* C6: for every sample, the empty one included, dynamicRange is an integer
\* between 0 and 10 equal to (highest zone holding at least 2%) minus (lowest
\* such zone); for the empty sample the histogram is all zeros and
\* dynamicRange is still a finite integer.
C6_DynamicRangeFiniteInteger ==
    zoneReport # NULL =>
        /\ IsFinite(zoneReport.dynamicRange)
        /\ IsInteger(zoneReport.dynamicRange)
        /\ RLe(RInt(0), zoneReport.dynamicRange)
        /\ RLe(zoneReport.dynamicRange, RInt(10))
        /\ ReportedSignificant # {} =>
              \E lo, hi \in ReportedSignificant :
                  /\ \A z \in ReportedSignificant : lo <= z /\ z <= hi
                  /\ zoneReport.dynamicRange = RInt(hi - lo)
        /\ ZoneSampleEmpty =>
              \A z \in 0..10 : zoneReport.zones[z].percentage = RInt(0)

\* C7: for every non-empty sample each counted pixel is in exactly one of the
\* 11 zones: the counts sum to the number of counted pixels, the 11
\* percentages sum to 100, and shadow + midtone + highlight sum to 100.
C7_ZonePercentagesSumTo100 ==
    (zoneReport # NULL /\ ~ZoneSampleEmpty) =>
        /\ ISum([i \in 1..11 |-> zoneReport.zones[i - 1].count])
              = Cardinality(countedPositions(zoneImage))
        /\ RSum([i \in 1..11 |-> zoneReport.zones[i - 1].percentage]) = RInt(100)
        /\ RAdd(zoneReport.shadowPercentage,
                RAdd(zoneReport.midtonePercentage, zoneReport.highlightPercentage))
              = RInt(100)
        /\ zoneReport.shadowPercentage
              = RSum([i \in 1..4 |-> zoneReport.zones[i - 1].percentage])
        /\ zoneReport.midtonePercentage
              = RSum([i \in 1..3 |-> zoneReport.zones[i + 3].percentage])
        /\ zoneReport.highlightPercentage
              = RSum([i \in 1..4 |-> zoneReport.zones[i + 6].percentage])

\* C7 witness: a report for a sample that mixes skipped (transparent) pixels
\* with counted pixels in a shadow, a midtone and a highlight zone
C7_MixedSampleReported ==
    /\ zoneReport # NULL
    /\ \E i \in sampledPositions(zoneImage) : zoneImage[i][4] <= ALPHA_THRESHOLD
    /\ RLt(RInt(0), zoneReport.shadowPercentage)
    /\ RLt(RInt(0), zoneReport.midtonePercentage)
    /\ RLt(RInt(0), zoneReport.highlightPercentage)

-----------------------------------------------------------------------------
(* SpecZoneLoad: analyzeZoneSystem from the decoded image on, for images of *)
(* one colour of up to MaxSourceWidth columns and the heights of            *)
(* ZoneSourceHeights (for which height * scale is the same in floating      *)
(* point as exactly)                                                        *)

MaxSourceWidth == 2

ZoneSourceHeights == { 1, 2, 3, 400, 401, 801, 1201 }

ZoneSources ==
    [naturalWidth : 1..MaxSourceWidth, naturalHeight : ZoneSourceHeights,
     color : { Transparent, Black, Red, MidGray, White }]

InitZoneLoad ==
    /\ zoneSource \in ZoneSources
    /\ zoneImage = <<>>
    /\ zoneReport = NULL
    /\ AppIdle /\ ScoreIdle /\ WeightIdle /\ KMeansIdle /\ HarmonyIdle /\ StyleIdle

\* image.onload of analyzeZoneSystem: the promise settles
ZoneSourceOnLoad ==
    /\ zoneReport = NULL
    /\ zoneReport' = zoneSettleOf(zoneSource, scaledWidthOf(zoneSource),
                                  scaledHeightOf(zoneSource))
    /\ zoneImage' = uniformData(scaledWidthOf(zoneSource), scaledHeightOf(zoneSource),
                                zoneSource.color)
    /\ UNCHANGED <<zoneSource, appVars, scoreVars, weightVars, kmVars, harmonyVars, styleVars>>

NextZoneLoad == ZoneSourceOnLoad

SpecZoneLoad == InitZoneLoad /\ [][NextZoneLoad]_vars

\* the promise has settled for an all-black opaque image
BlackSettled == zoneReport # NULL /\ zoneSource.color = Black

\* C16: for an all-black opaque image of any width and height
\* analyzeZoneSystem resolves, with 100% of the pixels in zone 0, character
\* "Low Key" and dynamic range 0.
C16_AllBlackIsLowKey ==
    BlackSettled =>
        /\ zoneReport # INDEX_SIZE_ERROR
        /\ REq(zoneReport.zones[0].percentage, RInt(100))
        /\ zoneReport.character = "Low Key"
        /\ REq(zoneReport.dynamicRange, RInt(0))

\* const MAX_DIMENSION = 400 of getPixelData and const maxDim = 200 of
\* analyzeVisualWeight
MAX_DIMENSION        == 400
WEIGHT_MAX_DIMENSION == 200

\* the width and the height the analysis with the cap maxDim gives its
\* canvas for the decoded image
WorkingWidth(maxDim) ==
    scaledSide(zoneSource.naturalWidth,
               scaleOf(zoneSource.naturalWidth, zoneSource.naturalHeight, maxDim))
WorkingHeight(maxDim) ==
    scaledSide(zoneSource.naturalHeight,
               scaleOf(zoneSource.naturalWidth, zoneSource.naturalHeight, maxDim))

\* C27 as stated: for a decoded image of width and height at least 1, the
\* working width and height of the colour, zone and weight analyses are at
\* least 1 and at most the cap, and the zone analysis reads a pixel buffer.
C27_WorkingSizeAtLeastOne ==
    zoneReport # NULL =>
        /\ \A maxDim \in {MAX_DIMENSION, ZONE_MAX_DIMENSION, WEIGHT_MAX_DIMENSION} :
              /\ WorkingWidth(maxDim) >= 1 /\ WorkingWidth(maxDim) <= maxDim
              /\ WorkingHeight(maxDim) >= 1 /\ WorkingHeight(maxDim) <= maxDim
        /\ zoneReport # INDEX_SIZE_ERROR

-----------------------------------------------------------------------------
(* SpecWeight: analyzeVisualWeight's onload handler applied to image data   *)

\* most pixels (width * height) of an enumerated image
MaxWeightPixels == 4

WeightPalette == { Transparent, White, Black, Red }

WeightSizes ==
    { wh \in (1..MaxWeightPixels) \X (1..MaxWeightPixels) :
        wh[1] * wh[2] <= MaxWeightPixels }

WeightImages ==
    UNION { [width : {wh[1]}, height : {wh[2]},
             data : [1..(wh[1] * wh[2]) -> WeightPalette]] : wh \in WeightSizes }

InitWeight ==
    /\ weightImage \in WeightImages
    /\ weightReport = NULL
    /\ AppIdle /\ ScoreIdle /\ ZoneIdle /\ KMeansIdle /\ HarmonyIdle /\ StyleIdle

\* image.onload of analyzeVisualWeight: the promise resolves with the report
WeightOnLoad ==
    /\ weightReport = NULL
    /\ weightReport' = analyzeVisualWeight(weightImage)
    /\ UNCHANGED <<weightImage, appVars, scoreVars, zoneVars, kmVars, harmonyVars, styleVars>>

NextWeight == WeightOnLoad

SpecWeight == InitWeight /\ [][NextWeight]_vars

(* ---- properties of analyzeVisualWeight ---- *)

NoOpaquePixel ==
    \A k \in DOMAIN weightImage.data : weightImage.data[k][4] <= 128

\* every pixel is opaque and all pixels have one and the same weight
UniformWeight ==
    /\ \A k \in DOMAIN weightImage.data : weightImage.data[k][4] > 128
    /\ \A k \in DOMAIN weightImage.data :
          getPixelWeight(weightImage.data[k]) = getPixelWeight(weightImage.data[1])

InUnitRange(q) == IsFinite(q) /\ RLe(RInt(0), q) /\ RLe(q, RInt(100))

\* C4: the centre of visual mass lies within [0,100] x [0,100], and it is
\* exactly (50,50) when there is no opaque pixel and also when every opaque
\* pixel of the image has the same weight (a uniform image of any width and
\* height, 1x1 included).
C4_CenterInRangeAndCenteredWhenUniform ==
    weightReport # NULL =>
        /\ InUnitRange(weightReport.centerOfMass.x)
        /\ InUnitRange(weightReport.centerOfMass.y)
        /\ (NoOpaquePixel \/ UniformWeight) =>
              /\ weightReport.centerOfMass.x = RInt(50)
              /\ weightReport.centerOfMass.y = RInt(50)

\* C5: each of the four quadrant weights is a defined number in [0,100], also
\* when the total weight is zero (no opaque pixel, or only white ones).
C5_QuadrantsDefined ==
    weightReport # NULL =>
        /\ InUnitRange(weightReport.quadrants.topLeft)
        /\ InUnitRange(weightReport.quadrants.topRight)
        /\ InUnitRange(weightReport.quadrants.bottomLeft)
        /\ InUnitRange(weightReport.quadrants.bottomRight)

\* the accumulators of the finished loop over the pixels of weightImage
WeightAccumulated ==
    weightSums(weightImage, weightImage.width * weightImage.height)

\* C22 as stated: when the total weight is positive, the horizontal balance
\* is the weight of the right half over the total weight, times 100, and the
\* vertical balance that of the bottom half over the total weight, times 100.
C22_BalanceIsFarSideShare ==
    (weightReport # NULL /\ WeightAccumulated.totalWeight > 0) =>
        /\ weightReport.horizontalBalance =
              Rat((WeightAccumulated.topRight + WeightAccumulated.bottomRight) * 100,
                  WeightAccumulated.totalWeight)
        /\ weightReport.verticalBalance =
              Rat((WeightAccumulated.bottomLeft + WeightAccumulated.bottomRight) * 100,
                  WeightAccumulated.totalWeight)

-----------------------------------------------------------------------------
(* SpecKMeans: kMeans applied to every list of up to MaxPixels sampled      *)
(* pixels drawn from KMeansPalette, under every outcome of Math.random()    *)

MaxPixels == 3

\* colours at distances below the merge distance (30), between the merge and
\* the filter distance (50), and beyond both
KMeansPalette == { <<0, 0, 0>>, <<30, 0, 0>>, <<50, 0, 0>>, <<200, 0, 0>> }

\* a sample of five colours far from each other and from black
SpreadSample ==
    << <<250, 0, 0>>, <<0, 250, 0>>, <<0, 0, 250>>, <<250, 250, 0>>, <<0, 250, 250>> >>

\* samples of two groups of the same size, of the fully saturated colours of
\* hue 0 and hue 180
RedPixel  == <<255, 0, 0>>
CyanPixel == <<0, 255, 255>>
ComplementarySamples ==
    { <<RedPixel, CyanPixel>>, <<CyanPixel, RedPixel>>,
      <<RedPixel, CyanPixel, CyanPixel, RedPixel>> }

KMeansInputs ==
    UNION { [1..n -> KMeansPalette] : n \in 0..MaxPixels }
        \cup { SpreadSample } \cup ComplementarySamples

InitKMeans ==
    /\ pixels \in KMeansInputs
    /\ centroids = <<>> /\ assignments = <<>> /\ iteration = 0
    /\ kpc = "start" /\ swatches = NULL
    /\ AppIdle /\ ScoreIdle /\ ZoneIdle /\ WeightIdle /\ HarmonyIdle /\ StyleIdle

\* faulty variant: the empty list is not returned at once, a centroid is
\* seeded first
KMeansEmpty_seeded ==
    /\ kpc = "start" /\ pixels = <<>>
    /\ centroids' = <<toNumbers(<<0, 0, 0>>)>>
    /\ swatches' = <<>>
    /\ kpc' = "done"
    /\ UNCHANGED <<pixels, assignments, iteration>>
    /\ UNCHANGED <<appVars, scoreVars, zoneVars, weightVars, harmonyVars, styleVars>>

\* if (pixels.length === 0) return []
KMeansEmpty ==
    /\ kpc = "start" /\ pixels = <<>>
    /\ swatches' = <<>>
    /\ kpc' = "done"
    /\ UNCHANGED <<pixels, centroids, assignments, iteration>>
    /\ UNCHANGED <<appVars, scoreVars, zoneVars, weightVars, harmonyVars, styleVars>>

\* the first centroid: any pixel
SeedFirst ==
    /\ kpc = "start" /\ pixels # <<>>
    /\ \E firstIdx \in DOMAIN pixels :
          centroids' = <<toNumbers(pixels[firstIdx])>>
    /\ kpc' = "seed"
    /\ UNCHANGED <<pixels, assignments, iteration, swatches>>
    /\ UNCHANGED <<appVars, scoreVars, zoneVars, weightVars, harmonyVars, styleVars>>

\* one turn of the loop over i = 1 .. k - 1 of initializeCentroidsPlusPlus
SeedNext ==
    /\ kpc = "seed"
    /\ \E j \in DOMAIN pixels :
          /\ canPick(pixels, centroids, j)
          /\ centroids' = Append(centroids, toNumbers(pixels[j]))
    /\ kpc' = IF Len(centroids) + 1 < K_CLUSTERS THEN "seed" ELSE "loop"
    /\ UNCHANGED <<pixels, assignments, iteration, swatches>>
    /\ UNCHANGED <<appVars, scoreVars, zoneVars, weightVars, harmonyVars, styleVars>>

\* faulty variant: the loop has no iteration cap
IterateWith_uncapped(newCentroids) ==
    IF hasConverged(centroids, newCentroids)
    THEN /\ kpc' = "finish"
         /\ UNCHANGED <<centroids, iteration>>
    ELSE /\ centroids' = newCentroids
         /\ iteration' = iteration + 1
         /\ kpc' = "loop"

\* the body of the clustering loop once newCentroids is known
IterateWith(newCentroids) ==
    IF hasConverged(centroids, newCentroids)
    THEN /\ kpc' = "finish"
         /\ UNCHANGED <<centroids, iteration>>
    ELSE /\ centroids' = newCentroids
         /\ iteration' = iteration + 1
         /\ kpc' = IF iteration + 1 < MAX_ITERATIONS THEN "loop" ELSE "finish"

\* one turn of the clustering loop of kMeans
Iterate ==
    /\ kpc = "loop"
    /\ assignments' = assignClusters(pixels, centroids)
    /\ IterateWith(updateCentroids(pixels, assignments', K_CLUSTERS))
    /\ UNCHANGED <<pixels, swatches>>
    /\ UNCHANGED <<appVars, scoreVars, zoneVars, weightVars, harmonyVars, styleVars>>

\* kMeans from the end of its clustering loop to its return
Finish ==
    /\ kpc = "finish"
    /\ swatches' = kMeansResult(pixels, centroids, assignments)
    /\ kpc' = "done"
    /\ UNCHANGED <<pixels, centroids, assignments, iteration>>
    /\ UNCHANGED <<appVars, scoreVars, zoneVars, weightVars, harmonyVars, styleVars>>

NextKMeans == KMeansEmpty \/ SeedFirst \/ SeedNext \/ Iterate \/ Finish

SpecKMeans == InitKMeans /\ [][NextKMeans]_vars

\* kMeans has returned for a non-empty pixel list
KMeansReturned == kpc = "done" /\ pixels # <<>>

SwatchPercentageSum ==
    RSum([i \in DOMAIN swatches |-> swatches[i].percentage])

\* C1: for every non-empty pixel list and every seeding, the percentages of
\* the list kMeans returns sum to 100 within 0.01, each of them being the
\* share of its swatch in the pixel counts of the returned swatches.
C1_PercentagesSumTo100 ==
    KMeansReturned =>
        /\ RLe(RAbs(RSub(SwatchPercentageSum, RInt(100))), Rat(1, 100))
        /\ \A i \in DOMAIN swatches :
              swatches[i].percentage
                  = percentageOf(swatches[i].count, totalCountOf(swatches))

\* the list the distinctness filter of the finished call was given
MergedCandidates == mergedColorsOf(sortedColorsOf(pixels, centroids, assignments))

\* C11: the list kMeans returns has at most 5 entries, and any two of them
\* are at least 60 apart in Euclidean RGB distance.
C11_AtMostFiveAndDistinct ==
    kpc = "done" =>
        /\ Len(swatches) <= 5
        /\ \A i, j \in DOMAIN swatches :
              i < j => ~closerThan(toNumbers(swatches[i].rgb),
                                   toNumbers(swatches[j].rgb), RInt(60))

\* C11 witness: kMeans has returned five swatches out of more than five
\* candidates.
C11_FiveOfMoreReturned ==
    /\ kpc = "done"
    /\ Len(swatches) = 5
    /\ Len(MergedCandidates) > 5

C15_RedCyanIsComplementary ==
    (kpc = "done" /\ pixels \in ComplementarySamples) =>
        analyzeColorHarmony(swatches).type = "Complementary"

\* C19: for an empty pixel list kMeans returns the empty list, and neither
\* seeds a centroid nor runs a turn of the clustering loop: the call goes
\* from its entry straight to its return.
C19_EmptyPixelsEmptySwatches ==
    pixels = <<>> =>
        /\ kpc \in {"start", "done"}
        /\ centroids = <<>> /\ assignments = <<>> /\ iteration = 0
        /\ kpc = "done" => swatches = <<>>

\* C19 witness: kMeans has returned for the empty pixel list.
C19_EmptyReturned == kpc = "done" /\ pixels = <<>>

\* C1 witness: kMeans has returned a list from which the distinctness
\* filter dropped a colour that held pixels.
C1_FilterDroppedPixels ==
    /\ KMeansReturned
    /\ totalCountOf(swatches) < Len(pixels)

\* C21 as stated: in a turn of the clustering loop, a cluster no pixel was
\* assigned to gets from updateCentroids the position its centroid had
\* before the turn.
C21_EmptyClusterKeepsPosition ==
    [][kpc = "loop" =>
          \A idx \in DOMAIN centroids :
              clusterCount(assignments', idx) = 0 =>
                  updateCentroids(pixels, assignments', K_CLUSTERS)[idx] = centroids[idx]]_vars

\* C26 as stated: every swatch kMeans returns holds at least one pixel and
\* has a percentage above 0.
C26_EverySwatchHoldsPixels ==
    KMeansReturned =>
        \A i \in DOMAIN swatches :
            /\ swatches[i].count >= 1
            /\ RLt(RInt(0), swatches[i].percentage)

-----------------------------------------------------------------------------
(* SpecKMeansCap: kMeans on LongSample, a sample of 14 pixels on the red    *)
(* axis, in the runs in which Math.random() returns 0 at each of the seven  *)
(* draws of the seeding loop, so that each of them selects the first pixel. *)
(* The first centroid is any pixel. The empty clusters, reset to black one  *)
(* after the other, keep the centroids moving for 16 to 25 turns.           *)

LongSample ==
    << <<44, 0, 0>>, <<10, 0, 0>>, <<6, 0, 0>>, <<12, 0, 0>>, <<26, 0, 0>>,
       <<120, 0, 0>>, <<0, 0, 0>>, <<17, 0, 0>>, <<57, 0, 0>>, <<37, 0, 0>>,
       <<20, 0, 0>>, <<75, 0, 0>>, <<61, 0, 0>>, <<66, 0, 0>> >>

InitKMeansCap ==
    /\ pixels = LongSample
    /\ centroids = <<>> /\ assignments = <<>> /\ iteration = 0
    /\ kpc = "start" /\ swatches = NULL
    /\ AppIdle /\ ScoreIdle /\ ZoneIdle /\ WeightIdle /\ HarmonyIdle /\ StyleIdle

\* one turn of the seeding loop with Math.random() = 0: threshold is 0 and
\* the selection stops at the first pixel
SeedNextAtZero ==
    /\ kpc = "seed"
    /\ canPick(pixels, centroids, 1)
    /\ centroids' = Append(centroids, toNumbers(pixels[1]))
    /\ kpc' = IF Len(centroids) + 1 < K_CLUSTERS THEN "seed" ELSE "loop"
    /\ UNCHANGED <<pixels, assignments, iteration, swatches>>
    /\ UNCHANGED <<appVars, scoreVars, zoneVars, weightVars, harmonyVars, styleVars>>

NextKMeansCap == SeedFirst \/ SeedNextAtZero \/ Iterate \/ Finish

SpecKMeansCap == InitKMeansCap /\ [][NextKMeansCap]_vars

\* C25: the clustering loop runs at most MAX_ITERATIONS turns: a turn that
\* does not end the loop raises the turn count by one, and the count stays
\* below MAX_ITERATIONS while the loop runs. A turn ends the loop exactly
\* when every centroid moved by less than 1 in it or when it is turn number
\* MAX_ITERATIONS, so the loop stops at the first turn whose centroids all
\* moved by less than 1.
C25_LoopBoundedAndStopsWhenConverged ==
    /\ [](iteration <= MAX_ITERATIONS /\ (kpc = "loop" => iteration < MAX_ITERATIONS))
    /\ [][kpc = "loop" =>
            /\ kpc' \in {"loop", "finish"}
            /\ kpc' = "loop" => iteration' = iteration + 1
            /\ (kpc' = "finish") <=>
                  \/ hasConverged(centroids,
                        updateCentroids(pixels, assignments', K_CLUSTERS))
                  \/ iteration' = MAX_ITERATIONS
            /\ hasConverged(centroids,
                  updateCentroids(pixels, assignments', K_CLUSTERS)) =>
                  (kpc' = "finish" /\ iteration' = iteration)]_vars

\* C25 witness: kMeans has returned after MAX_ITERATIONS turns none of which
\* converged.
C25_ReturnedAtCap == kpc = "done" /\ iteration = MAX_ITERATIONS

\* C30 as stated: once the clustering loop has ended, every pixel is
\* assigned to the cluster whose reported centroid is nearest to it, the
\* first of them on a tie.
C30_CountsBelongToReportedCentroids ==
    kpc \in {"finish", "done"} =>
        assignments = assignClusters(pixels, centroids)

-----------------------------------------------------------------------------
(* SpecApp: the ColorCall component with its ImageUpload child. Files are   *)
(* numbered in the order they reach handleFile; the data URL of file n is   *)
(* dataURL(n), and a result computed from it is resultOf(dataURL(n)).       *)
(* readers holds the files whose FileReader has not fired onload; runs is   *)
(* the list of the calls of handleImageLoad, each with the promises of its  *)
(* Promise.all that have not settled, whether the call is still at its      *)
(* await, and whether it went through its catch.                            *)

MaxSubmissions == 2

\* the three promises handleImageLoad awaits
Tasks == {"extractColors", "analyzeZoneSystem", "analyzeVisualWeight"}

\* the value setError is given when an analysis fails
ANALYSIS_FAILED == [message |-> "Failed to analyze image. Please try another file."]

\* e.target.result of the FileReader of file n
dataURL(n) == [file |-> n]

resultOf(src) == [from |-> src]

InitApp ==
    /\ image = NULL /\ colors = <<>> /\ scoreData = NULL /\ harmonyData = NULL
    /\ zoneData = NULL /\ weightData = NULL /\ analyzing = FALSE /\ error = NULL
    /\ readers = {} /\ runs = <<>> /\ submitted = 0
    /\ ScoreIdle /\ ZoneIdle /\ WeightIdle /\ KMeansIdle /\ HarmonyIdle /\ StyleIdle

\* handleFile(file): a file of another type is refused with an alert, any
\* other file is handed to a FileReader
handleFile(validType) ==
    /\ submitted < MaxSubmissions
    /\ submitted' = submitted + 1
    /\ readers' = IF validType THEN readers \cup {submitted + 1} ELSE readers
    /\ UNCHANGED <<image, colors, scoreData, harmonyData, zoneData, weightData,
                   analyzing, error, runs>>
    /\ UNCHANGED <<scoreVars, zoneVars, weightVars, kmVars, harmonyVars, styleVars>>

\* handleDrop: returns at once while disabled (= analyzing)
handleDrop ==
    /\ ~analyzing
    /\ \E validType \in BOOLEAN : handleFile(validType)

\* handleFileChange: the change event of the file input, itself disabled
\* while analyzing
handleFileChange ==
    /\ ~analyzing
    /\ \E validType \in BOOLEAN : handleFile(validType)

\* reader.onload of file src: handleImageLoad up to its await
handleImageLoad(src) ==
    /\ src \in readers
    /\ readers' = readers \ {src}
    /\ image' = dataURL(src)
    /\ analyzing' = TRUE
    /\ error' = NULL
    /\ runs' = Append(runs, [src |-> dataURL(src), pending |-> Tasks, awaiting |-> TRUE,
                           failed |-> FALSE])
    /\ UNCHANGED <<colors, scoreData, harmonyData, zoneData, weightData, submitted>>
    /\ UNCHANGED <<scoreVars, zoneVars, weightVars, kmVars, harmonyVars, styleVars>>

\* the statements of handleImageLoad behind its await, then its finally
storeResults(src) ==
    /\ colors' = <<resultOf(src)>>
    /\ zoneData' = resultOf(src)
    /\ weightData' = resultOf(src)
    /\ scoreData' = resultOf(src)
    /\ harmonyData' = resultOf(src)
    /\ analyzing' = FALSE
    /\ UNCHANGED <<image, error>>

\* faulty variant: the catch without the finally
storeFailure_noFinally ==
    /\ error' = ANALYSIS_FAILED
    /\ UNCHANGED <<image, colors, scoreData, harmonyData, zoneData, weightData,
                   analyzing>>

\* the catch of handleImageLoad, then its finally
storeFailure ==
    /\ error' = ANALYSIS_FAILED
    /\ analyzing' = FALSE
    /\ UNCHANGED <<image, colors, scoreData, harmonyData, zoneData, weightData>>

\* one promise of run r resolves; Promise.all resolves with the last one,
\* and handleImageLoad resumes
taskResolves(r, task) ==
    /\ task \in runs[r].pending
    /\ IF runs[r].awaiting /\ runs[r].pending = {task}
       THEN /\ runs' = [runs EXCEPT ![r].pending = {}, ![r].awaiting = FALSE]
            /\ storeResults(runs[r].src)
       ELSE /\ runs' = [runs EXCEPT ![r].pending = @ \ {task}]
            /\ UNCHANGED <<image, colors, scoreData, harmonyData, zoneData,
                           weightData, analyzing, error>>
    /\ UNCHANGED <<readers, submitted>>
    /\ UNCHANGED <<scoreVars, zoneVars, weightVars, kmVars, harmonyVars, styleVars>>

\* one promise of run r rejects; Promise.all rejects with the first one,
\* and handleImageLoad resumes in its catch
taskRejects(r, task) ==
    /\ task \in runs[r].pending
    /\ IF runs[r].awaiting
       THEN /\ runs' = [runs EXCEPT ![r].pending = @ \ {task}, ![r].awaiting = FALSE,
                                     ![r].failed = TRUE]
            /\ storeFailure
       ELSE /\ runs' = [runs EXCEPT ![r].pending = @ \ {task}]
            /\ UNCHANGED <<image, colors, scoreData, harmonyData, zoneData,
                           weightData, analyzing, error>>
    /\ UNCHANGED <<readers, submitted>>
    /\ UNCHANGED <<scoreVars, zoneVars, weightVars, kmVars, harmonyVars, styleVars>>

\* the reset button is rendered while image is set
handleReset ==
    /\ image # NULL
    /\ image' = NULL
    /\ colors' = <<>>
    /\ scoreData' = NULL
    /\ harmonyData' = NULL
    /\ zoneData' = NULL
    /\ weightData' = NULL
    /\ error' = NULL
    /\ UNCHANGED <<analyzing, readers, runs, submitted>>
    /\ UNCHANGED <<scoreVars, zoneVars, weightVars, kmVars, harmonyVars, styleVars>>

ReaderOnLoad == \E src \in readers : handleImageLoad(src)
TaskResolves == \E r \in DOMAIN runs : \E task \in Tasks : taskResolves(r, task)
TaskRejects  == \E r \in DOMAIN runs : \E task \in Tasks : taskRejects(r, task)

NextApp ==
    \/ handleDrop
    \/ handleFileChange
    \/ ReaderOnLoad
    \/ TaskResolves
    \/ TaskRejects
    \/ handleReset

SpecApp == InitApp /\ [][NextApp]_vars

\* the images the stored results were computed from
StoredFrom ==
    { colors[i].from : i \in DOMAIN colors }
        \cup { v.from : v \in {scoreData, harmonyData, zoneData, weightData} \ {NULL} }

\* the image of the latest call of handleImageLoad
LatestSubmitted == runs[Len(runs)].src

\* C2: a result that enters the component state was computed from the most
\* recently submitted image, so that the results of an earlier analysis
\* never replace those of a newer one.
C2_StoredResultsAreOfLatestImage ==
    [][\A src \in StoredFrom' \ StoredFrom : src = LatestSubmitted']_vars

\* C3: a stored result was computed from the image the component holds; with
\* no image, after a reset, nothing is stored.
C3_NoResultOutlivesItsImage ==
    \A src \in StoredFrom : image # NULL /\ src = image

\* C29 as stated: analyzing is true while a run of handleImageLoad is at its
\* await, and false once no run is.
C29_AnalyzingWhileAnyRunInFlight ==
    analyzing <=> \E r \in DOMAIN runs : runs[r].awaiting

\* the step in which run r goes through its catch
RunFails(r) == ~runs[r].failed /\ runs'[r].failed

\* C17: a run of handleImageLoad one of whose analyses fails stores none of
\* its outputs, then or later; the step in which it fails sets the error
\* message and sets analyzing to false, changes no stored result and starts
\* no reader and no run; a later failure of the same run changes nothing of
\* the component state, so that the message is set once.
C17_FailedRunStoresNothing ==
    /\ [](\A r \in DOMAIN runs : runs[r].failed => runs[r].src \notin StoredFrom)
    /\ [][\A r \in DOMAIN runs :
            /\ RunFails(r) =>
                  /\ error' = ANALYSIS_FAILED
                  /\ analyzing' = FALSE
                  /\ UNCHANGED <<image, colors, scoreData, harmonyData, zoneData,
                                 weightData, readers, submitted>>
                  /\ Len(runs') = Len(runs)
            /\ (runs[r].failed /\ runs'[r] # runs[r]) =>
                  UNCHANGED <<image, colors, scoreData, harmonyData, zoneData,
                              weightData, analyzing, error>>]_vars

\* C17 witness: a run has failed after one of its analyses had resolved, the
\* error message is set and analyzing is false.
C17_RunFailed ==
    \E r \in DOMAIN runs :
        /\ runs[r].failed
        /\ Cardinality(runs[r].pending) = 1
        /\ error = ANALYSIS_FAILED
        /\ analyzing = FALSE

-----------------------------------------------------------------------------
(* SpecHarmony: analyzeColorHarmony applied to every list of up to          *)
(* MaxHarmonyColors swatches with the colours of HarmonyPalette             *)

MaxHarmonyColors == 4

\* a gray, and saturated colours of the hues 0, 30, 90, 120, 140, 180, 240
\* and 345
HarmonyPalette ==
    { <<128, 128, 128>>, <<255, 0, 0>>, <<255, 128, 0>>, <<128, 255, 0>>,
      <<0, 255, 0>>, <<0, 255, 85>>, <<0, 255, 255>>, <<0, 0, 255>>,
      <<255, 0, 64>> }

HarmonyInputs ==
    UNION { [1..n -> [rgb : HarmonyPalette]] : n \in 0..MaxHarmonyColors }

InitHarmony ==
    /\ harmonyInput \in HarmonyInputs
    /\ harmonyReport = NULL
    /\ AppIdle /\ ScoreIdle /\ ZoneIdle /\ WeightIdle /\ KMeansIdle /\ StyleIdle

\* one call of analyzeColorHarmony(harmonyInput)
CallAnalyzeColorHarmony ==
    /\ harmonyReport = NULL
    /\ harmonyReport' = analyzeColorHarmony(harmonyInput)
    /\ UNCHANGED <<harmonyInput, appVars, scoreVars, zoneVars, weightVars, kmVars,
                   styleVars>>

NextHarmony == CallAnalyzeColorHarmony

SpecHarmony == InitHarmony /\ [][NextHarmony]_vars

\* the hue and the saturation of swatch i of the argument, from its rgb
InputHue(i)        == rgbToHsl(harmonyInput[i].rgb)[1]
InputSaturation(i) == rgbToHsl(harmonyInput[i].rgb)[2]

\* the positions of the first three swatches of the argument
InputTop == 1..Min(Len(harmonyInput), 3)

\* C14: analyzeColorHarmony returns, for every list of 0, 1, 2, 3 or more
\* swatches, one of the eight archetypes; for two or more swatches the type
\* is the one the chain of tests gives for the hues and saturations of the
\* first three swatches, whatever follows them, and for fewer it is
\* "Monochromatic".
C14_HarmonyTotalOnTopThree ==
    harmonyReport # NULL =>
        /\ harmonyReport.type \in
              {"Monochromatic", "Achromatic", "Complementary", "Triadic",
               "Split-Complementary", "Analogous", "Tetradic", "Complex"}
        /\ Len(harmonyInput) < 2 => harmonyReport.type = "Monochromatic"
        /\ Len(harmonyInput) >= 2 =>
              harmonyReport.type = harmonyTypeOf([i \in InputTop |-> InputHue(i)],
                                                 [i \in InputTop |-> InputSaturation(i)])

\* C14 witness: a list of four swatches was classified "Tetradic", the last
\* test of the chain.
C14_FourSwatchesTetradic ==
    /\ harmonyReport # NULL
    /\ Len(harmonyInput) = 4
    /\ harmonyReport.type = "Tetradic"

\* the hue distance of swatches i and j of the argument lies within 20 of 90
InputPairNear90(i, j) ==
    huesMatch(hueDifference(InputHue(i), InputHue(j)), 90, 20)

\* C23 as stated: a result for three or more swatches that none of the
\* rules before the tetradic one matched is "Tetradic" when one of the three
\* hue distances first/second, first/third, second/third is within 20 of 90,
\* and "Complex" only when none is.
C23_AnyPairNear90IsTetradic ==
    (/\ harmonyReport # NULL
     /\ Len(harmonyInput) >= 3
     /\ harmonyReport.type \in {"Tetradic", "Complex"}) =>
        (harmonyReport.type = "Tetradic" <=>
            InputPairNear90(1, 2) \/ InputPairNear90(1, 3) \/ InputPairNear90(2, 3))

\* the lists of at most two swatches, whose results a result is compared with
HarmonyProbes == { probe \in HarmonyInputs : Len(probe) <= 2 }

\* C24 as stated: the score of a result is fixed by its type, the same as
\* that of every other result of this type, and it lies between 75 and 95.
C24_ScoreFixedByType ==
    harmonyReport # NULL =>
        /\ harmonyReport.score >= 75 /\ harmonyReport.score <= 95
        /\ \A probe \in HarmonyProbes :
              analyzeColorHarmony(probe).type = harmonyReport.type =>
                  analyzeColorHarmony(probe).score = harmonyReport.score

\* C28 as stated: when the result for two or more swatches is
\* "Monochromatic", any two of the evaluated hues are within 20 of each
\* other on the colour wheel.
C28_MonochromaticHuesClose ==
    (/\ harmonyReport # NULL
     /\ Len(harmonyInput) >= 2
     /\ harmonyReport.type = "Monochromatic") =>
        \A i, j \in InputTop : hueDifference(InputHue(i), InputHue(j)) <= 20

-----------------------------------------------------------------------------
(* matchCinematographerStyle   (utils/cinematographerStyles.js)              *)
(* A profile keeps the four fields of its style that calculateMatchScore     *)
(* reads; names, notable works and the unread style fields are left out.     *)
(* A swatch is a record that carries an hsl field, [h, s, l], or carries     *)
(* none; harmony and zoneData are NULL or records.                           *)

CINEMATOGRAPHER_PROFILES ==
    << [id |-> "deakins",    saturationRange |-> <<15, 45>>,
        harmonyTypes      |-> <<"Analogous", "Monochromatic", "Complementary">>,
        zoneCharacters    |-> <<"Balanced", "Low Key", "Full Range">>,
        dominantHueRanges |-> << <<30, 60>>, <<180, 240>> >>],
       [id |-> "lubezki",    saturationRange |-> <<10, 35>>,
        harmonyTypes      |-> <<"Monochromatic", "Analogous", "Achromatic">>,
        zoneCharacters    |-> <<"High Key", "Full Range", "Balanced">>,
        dominantHueRanges |-> << <<180, 240>>, <<30, 90>> >>],
       [id |-> "richardson", saturationRange |-> <<40, 80>>,
        harmonyTypes      |-> <<"Complementary", "Split-Complementary", "Triadic">>,
        zoneCharacters    |-> <<"Low Key", "Full Range">>,
        dominantHueRanges |-> << <<0, 30>>, <<330, 360>>, <<45, 75>> >>],
       [id |-> "kaminski",   saturationRange |-> <<5, 30>>,
        harmonyTypes      |-> <<"Achromatic", "Monochromatic", "Analogous">>,
        zoneCharacters    |-> <<"Full Range", "Low Key", "Compressed">>,
        dominantHueRanges |-> << <<30, 60>>, <<0, 30>> >>],
       [id |-> "khondji",    saturationRange |-> <<20, 50>>,
        harmonyTypes      |-> <<"Monochromatic", "Analogous", "Complementary">>,
        zoneCharacters    |-> <<"Low Key", "Compressed">>,
        dominantHueRanges |-> << <<30, 90>>, <<150, 210>> >>],
       [id |-> "storaro",    saturationRange |-> <<50, 90>>,
        harmonyTypes      |-> <<"Complementary", "Triadic", "Split-Complementary">>,
        zoneCharacters    |-> <<"Full Range", "Balanced">>,
        dominantHueRanges |-> << <<0, 360>> >>],
       [id |-> "sandgren",   saturationRange |-> <<45, 75>>,
        harmonyTypes      |-> <<"Analogous", "Complementary", "Triadic">>,
        zoneCharacters    |-> <<"High Key", "Balanced">>,
        dominantHueRanges |-> << <<30, 60>>, <<270, 300>>, <<180, 210>> >>],
       [id |-> "fraser",     saturationRange |-> <<15, 40>>,
        harmonyTypes      |-> <<"Monochromatic", "Analogous", "Achromatic">>,
        zoneCharacters    |-> <<"Low Key", "Compressed", "Full Range">>,
        dominantHueRanges |-> << <<30, 60>>, <<0, 30>> >>] >>

\* Array.prototype.includes
includes(list, x) == \E i \in DOMAIN list : list[i] = x

\* c.hsl || [0, 0, 0]
hslOrZero(c) == IF "hsl" \in DOMAIN c THEN c.hsl ELSE <<0, 0, 0>>

\* colors.slice(0, 3).reduce((sum, c) => sum + s, 0) / Math.min(colors.length, 3)
avgSaturationOf(colorList) ==
    Rat(ISum([i \in DOMAIN Slice(colorList, 0, 3) |-> hslOrZero(colorList[i])[2]]),
        Min(Len(colorList), 3))

\* 1. saturation match: 25 inside the range, else 25 less the distance to it,
\* and never below 0
saturationPoints(avgSaturation, minSat, maxSat) ==
    IF RLe(RInt(minSat), avgSaturation) /\ RLe(avgSaturation, RInt(maxSat))
    THEN RInt(25)
    ELSE IF RLt(avgSaturation, RInt(minSat))
         THEN IF RLt(RSub(RInt(minSat), avgSaturation), RInt(25))
              THEN RSub(RInt(25), RSub(RInt(minSat), avgSaturation))
              ELSE RInt(0)
         ELSE IF RLt(RSub(avgSaturation, RInt(maxSat)), RInt(25))
              THEN RSub(RInt(25), RSub(avgSaturation, RInt(maxSat)))
              ELSE RInt(0)

\* ([min, max]) => min <= max ? hue >= min && hue <= max : hue >= min || hue <= max
hueInRange(dominantHue, range) ==
    IF range[1] <= range[2]
    THEN dominantHue >= range[1] /\ dominantHue <= range[2]
    ELSE dominantHue >= range[1] \/ dominantHue <= range[2]

\* the conditions under which each of the four factors is counted
countsSaturation(analysis) == Len(analysis.colors) > 0
countsHarmony(analysis)    == analysis.harmony # NULL
countsZone(analysis)       == analysis.zoneData # NULL
countsHue(analysis) ==
    Len(analysis.colors) > 0 /\ "hsl" \in DOMAIN analysis.colors[1]

\* the points of each factor, 0 for a factor that is not counted
saturationFactor(analysis, profile) ==
    IF countsSaturation(analysis)
    THEN saturationPoints(avgSaturationOf(analysis.colors),
                          profile.saturationRange[1], profile.saturationRange[2])
    ELSE RInt(0)
harmonyFactor(analysis, profile) ==
    IF countsHarmony(analysis)
    THEN IF includes(profile.harmonyTypes, analysis.harmony.type) THEN 25 ELSE 10
    ELSE 0
zoneFactor(analysis, profile) ==
    IF countsZone(analysis)
    THEN IF includes(profile.zoneCharacters, analysis.zoneData.character) THEN 25 ELSE 10
    ELSE 0
hueFactor(analysis, profile) ==
    IF countsHue(analysis)
    THEN IF \E i \in DOMAIN profile.dominantHueRanges :
                hueInRange(analysis.colors[1].hsl[1], profile.dominantHueRanges[i])
         THEN 25 ELSE 8
    ELSE 0

factorsOf(analysis) ==
      (IF countsSaturation(analysis) THEN 1 ELSE 0)
    + (IF countsHarmony(analysis) THEN 1 ELSE 0)
    + (IF countsZone(analysis) THEN 1 ELSE 0)
    + (IF countsHue(analysis) THEN 1 ELSE 0)

\* factors > 0 ? Math.round(score / factors * 4) : 0
normalizedScore(score, factors) ==
    IF factors > 0 THEN MathRound(RMul(RMul(score, Rat(1, factors)), RInt(4))) ELSE 0

calculateMatchScore(analysis, profile) ==
    normalizedScore(
        RAdd(saturationFactor(analysis, profile),
             RInt(harmonyFactor(analysis, profile) + zoneFactor(analysis, profile)
                  + hueFactor(analysis, profile))),
        factorsOf(analysis))

\* faulty variant of one step of the sort: x goes in front of the entries of
\* its own score
placeByMatchScore_unstable(sorted, x) ==
    LET n == Cardinality({ i \in DOMAIN sorted : x.matchScore < sorted[i].matchScore })
    IN  SubSeq(sorted, 1, n) \o <<x>> \o SubSeq(sorted, n + 1, Len(sorted))

\* one step of the stable sort: x goes behind every entry of the sorted list
\* whose matchScore is at least its own
placeByMatchScore(sorted, x) ==
    LET n == Cardinality({ i \in DOMAIN sorted : x.matchScore <= sorted[i].matchScore })
    IN  SubSeq(sorted, 1, n) \o <<x>> \o SubSeq(sorted, n + 1, Len(sorted))

\* matches.sort((a, b) => b.matchScore - a.matchScore): stable, descending
RECURSIVE sortByMatchScore(_)
sortByMatchScore(list) ==
    IF list = <<>> THEN <<>>
    ELSE placeByMatchScore(sortByMatchScore(SubSeq(list, 1, Len(list) - 1)),
                           list[Len(list)])

\* CINEMATOGRAPHER_PROFILES.map(profile => ({...profile, matchScore}))
matchesOf(analysis) ==
    [i \in DOMAIN CINEMATOGRAPHER_PROFILES |->
        [matchScore |-> calculateMatchScore(analysis, CINEMATOGRAPHER_PROFILES[i])]
            @@ CINEMATOGRAPHER_PROFILES[i]]

matchCinematographerStyle(analysis) == sortByMatchScore(matchesOf(analysis))

-----------------------------------------------------------------------------
(* SpecStyle: matchCinematographerStyle applied to every analysis of up to  *)
(* MaxStyleColors swatches of StyleSwatches, with or without a harmony and  *)
(* with or without zone data                                                *)

MaxStyleColors == 3

\* [h, s, l] of a gray, an amber, a blue, a magenta-red and a hue rounded to 360
StyleHsl ==
    { <<0, 0, 50>>, <<45, 47, 50>>, <<200, 20, 40>>, <<340, 100, 50>>,
      <<360, 63, 50>> }

\* swatches with hsl, and a swatch as extractColors returns it, without
StyleSwatches == [hsl : StyleHsl] \cup { [rgb |-> <<0, 0, 0>>] }

HarmonyTypes ==
    {"Monochromatic", "Achromatic", "Complementary", "Triadic",
     "Split-Complementary", "Analogous", "Tetradic", "Complex"}

ZoneCharacters ==
    {"Low Key", "High Key", "Middle Key", "Full Range", "Compressed", "Balanced"}

StyleAnalyses ==
    [ colors   : UNION { [1..n -> StyleSwatches] : n \in 0..MaxStyleColors },
      harmony  : {NULL} \cup [type : HarmonyTypes],
      zoneData : {NULL} \cup [character : ZoneCharacters] ]

InitStyle ==
    /\ styleInput \in StyleAnalyses
    /\ styleMatches = <<>>
    /\ AppIdle /\ ScoreIdle /\ ZoneIdle /\ WeightIdle /\ KMeansIdle /\ HarmonyIdle

\* one call of matchCinematographerStyle(styleInput)
CallMatchCinematographerStyle ==
    /\ styleMatches = <<>>
    /\ styleMatches' = matchCinematographerStyle(styleInput)
    /\ UNCHANGED <<styleInput, appVars, scoreVars, zoneVars, weightVars, kmVars,
                   harmonyVars>>

NextStyle == CallMatchCinematographerStyle

SpecStyle == InitStyle /\ [][NextStyle]_vars

\* the position of a result's profile in the profile table
TableIndex(match) ==
    CHOOSE i \in DOMAIN CINEMATOGRAPHER_PROFILES :
        CINEMATOGRAPHER_PROFILES[i].id = match.id

\* C13: matchCinematographerStyle returns eight results, one for each profile
\* of the table; each matchScore is an integer from 0 to 100; the scores do
\* not increase along the list, and results of equal score stand in the
\* order of the profile table.
C13_EightRankedMatches ==
    styleMatches # <<>> =>
        /\ Len(styleMatches) = 8
        /\ \A p \in DOMAIN CINEMATOGRAPHER_PROFILES :
              Cardinality({ i \in DOMAIN styleMatches :
                  styleMatches[i].id = CINEMATOGRAPHER_PROFILES[p].id }) = 1
        /\ \A i \in DOMAIN styleMatches : styleMatches[i].matchScore \in 0..100
        /\ \A i, j \in DOMAIN styleMatches :
              i < j =>
                \/ styleMatches[i].matchScore > styleMatches[j].matchScore
                \/ /\ styleMatches[i].matchScore = styleMatches[j].matchScore
                   /\ TableIndex(styleMatches[i]) < TableIndex(styleMatches[j])

\* C13 witness: an analysis with swatches, harmony and zone data was matched,
\* the sort moved the first profile of the table from the head of the list,
\* and two results share a score.
C13_RankedWithTie ==
    /\ styleMatches # <<>>
    /\ Len(styleInput.colors) = 3
    /\ styleInput.harmony # NULL
    /\ styleInput.zoneData # NULL
    /\ styleMatches[1].id # "deakins"
    /\ styleMatches[1].matchScore > styleMatches[8].matchScore
    /\ \E i \in 1..7 : styleMatches[i].matchScore = styleMatches[i + 1].matchScore

=============================================================================
